---- MODULE Spec2Model ----
(***************************************************************************)
(* Model of the Shopify app-proxy endpoint GET /users of server/user.js.   *)
(*                                                                         *)
(* One request is a chain of callbacks on the Node.js event loop:          *)
(*   route handler -> fetchCustomerData(...).then -> db.query callback     *)
(*   -> fetchProductData(...).then, with the two product sub-queries and   *)
(*   the Promise.all(...).then merge running on their own.                 *)
(* Every callback is one action.  Promise reactions (microtasks) run       *)
(* before the event loop takes the next I/O completion, so an I/O action   *)
(* is disabled while a promise reaction is pending.                        *)
(*                                                                         *)
(* JavaScript values are records, so that undefined, null, strings,        *)
(* numbers and objects can be told apart and compared:                     *)
(*   undefined = [undefined |-> TRUE], null = [null |-> TRUE],             *)
(*   "abc" = [str |-> "abc"], 7 = [num |-> 7], [1,2] = [arr |-> <<1,2>>],  *)
(*   {a: v} = [a |-> v].                                                   *)
(***************************************************************************)
EXTENDS Integers, Sequences, FiniteSets, TLC

\* Number of requests in flight at once.
NumRequests == 2

Reqs == 1..NumRequests

VARIABLES
    pc,            \* pc[r]: which callback of request r runs next
    userId,        \* userId[r]: req.query['user_id'] (user.js:64)
    responses,     \* responses[r]: the responses written to res, in order
    customer,      \* customer[r]: the client.query of fetchCustomerData
    store,         \* store[r]: the db.query of the handler
    detail,        \* detail[r]: the first client.query of fetchProductData
    image,         \* image[r]: the second client.query of fetchProductData
    merged,        \* merged[r]: the promise of Promise.all(...).then(...)
    closure,       \* closure[r]: firstName, profileImage, favoriteProductId
    log,           \* log[r]: the console.error messages of request r
    unhandled,     \* unhandled[r]: promise rejections nobody handles
    events         \* events[r]: the calls issued, the calls returned and
                   \* the responses sent for r, in the order they happened

vars == <<pc, userId, responses, customer, store, detail, image, merged,
          closure, log, unhandled, events>>

----------------------------------------------------------------------------
\* JavaScript values

UNDEFINED == [undefined |-> TRUE]
NULL == [null |-> TRUE]
S(s) == [str |-> s]
N(n) == [num |-> n]
Arr(seq) == [arr |-> seq]

\* ToBoolean: undefined, null, "" and 0 are falsy, objects are truthy.
Truthy(v) == v \notin {UNDEFINED, NULL, S(""), N(0)}

\* Property read obj.f of an object: undefined when the property is absent.
Get(obj, f) == IF f \in DOMAIN obj THEN obj[f] ELSE UNDEFINED

\* arr[0]: undefined on an empty array.
First(a) == IF Len(a.arr) > 0 THEN a.arr[1] ELSE UNDEFINED

\* Template-literal conversion `${v}`.
TemplateString(v) ==
    IF v = UNDEFINED THEN "undefined"
    ELSE IF v = NULL THEN "null"
    ELSE v.str

\* obj.f = v on an object.
Put(obj, f, v) ==
    [g \in DOMAIN obj \cup {f} |-> IF g = f THEN v ELSE obj[g]]

----------------------------------------------------------------------------
\* The remote customer API, the local store and the remote product API

\* Customers known to the remote customer API, by id.
Customers ==
    [c \in {"42", "43", "44", "45", "46"} |->
        CASE c = "42" -> [id |-> S("42"), firstName |-> S("Ana"),
                          image |-> [src |-> S("https://x/a.png")]]
          [] c = "43" -> [id |-> S("43"), firstName |-> S("Bob"),
                          image |-> NULL]
          [] c = "44" -> [id |-> S("44"), firstName |-> S("Cy"),
                          image |-> NULL]
          [] c = "45" -> [id |-> S("45"), firstName |-> S("Di"),
                          image |-> NULL]
          [] c = "46" -> [id |-> S("46"), firstName |-> S("Ed"),
                          image |-> NULL]]

\* The users table of the local store (user.js:36-40).
Users ==
    << [shopify_customer_id |-> S("42"), favorite_product_id |-> S("99")],
       [shopify_customer_id |-> S("43"), favorite_product_id |-> S("98")],
       [shopify_customer_id |-> S("44"), favorite_product_id |-> S("97")],
       [shopify_customer_id |-> S("45"), favorite_product_id |-> NULL],
       [shopify_customer_id |-> S("43"), favorite_product_id |-> S("99")] >>

\* Products known to the remote product API, by id.
Products ==
    [p \in {"99", "98"} |->
        CASE p = "99" -> [id |-> S("99"), title |-> S("Mug"),
                          description |-> S("Ceramic"),
                          onlineStoreUrl |-> S("https://shop/mug")]
          [] p = "98" -> [id |-> S("98"), title |-> S("Lamp"),
                          description |-> S("Brass"),
                          onlineStoreUrl |-> S("https://shop/lamp")]]

\* Image media of the products, in position order.
Media ==
    [p \in {"99", "98"} |->
        CASE p = "99" -> << >>
          [] p = "98" -> << [id |-> S("m1"), alt |-> S("a lamp"),
                             image |-> [width |-> N(640), height |-> N(480),
                                        url |-> S("https://cdn/lamp.png")]] >>]

\* The values req.query['user_id'] takes.
UserIdInputs ==
    {UNDEFINED, S(""), S("42"), S("43"), S("44"), S("45"), S("46"), S("47")}

\* Response data of the customer query for id.
customerQuery(id) ==
    [data |-> [customer |-> IF id \in DOMAIN Customers THEN Customers[id]
                            ELSE NULL]]

\* Response data of the product detail query for id.
productQuery(id) ==
    [data |-> [product |-> IF id \in DOMAIN Products THEN Products[id]
                           ELSE NULL]]

\* Response data of the product image query for id.
productImageQuery(id) ==
    [data |-> [product |-> IF id \in DOMAIN Media
                           THEN [media |-> [nodes |-> Arr(Media[id])]]
                           ELSE NULL]]

\* The rows db.query passes to its callback for the parameter id.
RECURSIVE selectFavorite(_, _)
selectFavorite(rows, id) ==
    IF rows = << >> THEN << >>
    ELSE LET rest == selectFavorite(Tail(rows), id)
         IN  IF Head(rows).shopify_customer_id = id
             THEN <<[favorite_product_id |-> Head(rows).favorite_product_id]>>
                  \o rest
             ELSE rest

----------------------------------------------------------------------------
\* Asynchronous calls and promises

NotIssued == [st |-> "none", arg |-> UNDEFINED, val |-> UNDEFINED]
Pending(arg) == [st |-> "pending", arg |-> arg, val |-> UNDEFINED]
Fulfilled(call, v) == [st |-> "fulfilled", arg |-> call.arg, val |-> v]
Rejected(call, e) == [st |-> "rejected", arg |-> call.arg, val |-> S(e)]

Resp(status, body) == [status |-> status, body |-> body]
ErrorBody(msg) == [error |-> S(msg)]

----------------------------------------------------------------------------
\* fetchCustomerData and fetchProductData

\* The promise fetchCustomerData returns once its client.query has settled:
\* the customer of the response, or the error thrown by the catch block.
fetchCustomerData(call) ==
    IF call.st = "rejected"
    THEN [rejected |-> TRUE, value |-> S("Failed to fetch customer data"),
          logged |-> {"Error fetching customer data"}]
    ELSE [rejected |-> FALSE, value |-> call.val.data.customer,
          logged |-> {}]

\* fetchProductData returning the awaited response of the detail query alone.
fetchProductDataDetailResponse(d, i) ==
    [settled |-> d.st \in {"fulfilled", "rejected"},
     rejected |-> d.st = "rejected",
     value |-> d.val]

\* The promise fetchProductData returns, given its two sub-queries d and i.
\* The try block issues both queries and registers Promise.all(...).then(...)
\* without returning or awaiting it, so the async function completes at once
\* with undefined whatever becomes of d and i.
fetchProductData(d, i) ==
    [settled |-> TRUE, rejected |-> FALSE, value |-> UNDEFINED]

\* fetchProductData issuing the detail query a second time.
fetchProductDataCallsTwice == <<"call:detail", "call:image", "call:detail">>

\* fetchProductData issuing the detail query only.
fetchProductDataCallsDetailOnly == <<"call:detail">>

\* The client.query calls fetchProductData issues before it returns, in
\* order: neither is awaited before the other is issued.
fetchProductDataCalls == <<"call:detail", "call:image">>

\* The callback of Promise.all([productData, productImage]).then: the value
\* it returns for the responses of the two sub-queries.
mergeProduct(r0, r1) ==
    LET product == r0.data.product
        node == First(r1.data.product.media.nodes)
    IN  IF ~Truthy(product) THEN NULL
        ELSE IF Truthy(node)
             THEN Put(product, "image",
                      [id |-> node.id, alt |-> node.alt,
                       url |-> node.image.url, width |-> node.image.width,
                       height |-> node.image.height])
             ELSE product

\* The promise Promise.all([productData, productImage]).then(...) for the
\* sub-queries d and i: rejected as soon as one is rejected, fulfilled with
\* the merged product once both are fulfilled.
promiseAllThen(d, i) ==
    IF d.st = "rejected" THEN [st |-> "rejected", val |-> d.val]
    ELSE IF i.st = "rejected" THEN [st |-> "rejected", val |-> i.val]
    ELSE IF d.st = "fulfilled" /\ i.st = "fulfilled"
         THEN [st |-> "fulfilled", val |-> mergeProduct(d.val, i.val)]
         ELSE [st |-> "pending", val |-> UNDEFINED]

----------------------------------------------------------------------------
\* The callbacks of the route handler

\* usersHandler without the return of the 400 branch.
usersHandlerNoReturn(uid) ==
    IF ~Truthy(uid)
    THEN [respond |-> <<Resp(400, ErrorBody("Missing user_id query parameter"))>>,
          fetchCustomer |-> TRUE]
    ELSE [respond |-> << >>, fetchCustomer |-> TRUE]

\* app.get('/users') up to the call of fetchCustomerData.
usersHandler(uid) ==
    IF ~Truthy(uid)
    THEN [respond |-> <<Resp(400, ErrorBody("Missing user_id query parameter"))>>,
          fetchCustomer |-> FALSE]
    ELSE [respond |-> << >>, fetchCustomer |-> TRUE]

\* customerThen with db.query issued before the customer is checked.
customerThenQueryFirst(customerData) ==
    IF ~Truthy(customerData)
    THEN [respond |-> <<Resp(404, ErrorBody("Customer not found"))>>,
          query |-> TRUE, firstName |-> UNDEFINED, profileImage |-> UNDEFINED]
    ELSE [respond |-> << >>, query |-> TRUE,
          firstName |-> Get(customerData, "firstName"),
          profileImage |-> Get(customerData, "image")]

\* The callback of fetchCustomerData(userId).then up to the call of db.query.
customerThen(customerData) ==
    IF ~Truthy(customerData)
    THEN [respond |-> <<Resp(404, ErrorBody("Customer not found"))>>,
          query |-> FALSE, firstName |-> UNDEFINED, profileImage |-> UNDEFINED]
    ELSE [respond |-> << >>, query |-> TRUE,
          firstName |-> Get(customerData, "firstName"),
          profileImage |-> Get(customerData, "image")]

\* queryCallback testing !results in place of results.length === 0.
queryCallbackNoLength(err, results) ==
    IF err
    THEN [respond |-> <<Resp(500, ErrorBody("Database query error"))>>,
          fetchProduct |-> FALSE, favoriteProductId |-> UNDEFINED]
    ELSE IF ~Truthy(results)
    THEN [respond |-> <<Resp(404, ErrorBody("Favorite product not found"))>>,
          fetchProduct |-> FALSE, favoriteProductId |-> UNDEFINED]
    ELSE [respond |-> << >>, fetchProduct |-> TRUE,
          favoriteProductId |-> Get(First(results), "favorite_product_id")]

\* queryCallback without the return of the zero-rows branch.
queryCallbackNoReturn(err, results) ==
    IF err
    THEN [respond |-> <<Resp(500, ErrorBody("Database query error"))>>,
          fetchProduct |-> FALSE, favoriteProductId |-> UNDEFINED]
    ELSE IF Len(results.arr) = 0
    THEN [respond |-> <<Resp(404, ErrorBody("Favorite product not found"))>>,
          fetchProduct |-> TRUE,
          favoriteProductId |-> Get(First(results), "favorite_product_id")]
    ELSE [respond |-> << >>, fetchProduct |-> TRUE,
          favoriteProductId |-> Get(First(results), "favorite_product_id")]

\* queryCallback answering a store fault like a missing row.
queryCallbackErrAsMissing(err, results) ==
    IF err \/ Len(results.arr) = 0
    THEN [respond |-> <<Resp(404, ErrorBody("Favorite product not found"))>>,
          fetchProduct |-> FALSE, favoriteProductId |-> UNDEFINED]
    ELSE [respond |-> << >>, fetchProduct |-> TRUE,
          favoriteProductId |-> Get(First(results), "favorite_product_id")]

\* The db.query callback up to the call of fetchProductData.
queryCallback(err, results) ==
    IF err
    THEN [respond |-> <<Resp(500, ErrorBody("Database query error"))>>,
          fetchProduct |-> FALSE, favoriteProductId |-> UNDEFINED]
    ELSE IF Len(results.arr) = 0
    THEN [respond |-> <<Resp(404, ErrorBody("Favorite product not found"))>>,
          fetchProduct |-> FALSE, favoriteProductId |-> UNDEFINED]
    ELSE [respond |-> << >>, fetchProduct |-> TRUE,
          favoriteProductId |-> Get(First(results), "favorite_product_id")]

\* The body of the success response.
landingView(firstName, profileImage, productData) ==
    [firstName |-> firstName,
     profileImage |-> profileImage,
     product |->
        [id |-> Get(productData, "id"),
         title |-> Get(productData, "title"),
         description |-> Get(productData, "description"),
         onlineStoreUrl |-> Get(productData, "onlineStoreUrl"),
         image |-> IF Truthy(Get(productData, "image"))
                   THEN [id |-> Get(Get(productData, "image"), "id"),
                         alt |-> Get(Get(productData, "image"), "alt"),
                         url |-> Get(Get(productData, "image"), "url"),
                         width |-> Get(Get(productData, "image"), "width"),
                         height |-> Get(Get(productData, "image"), "height")]
                   ELSE NULL]]

\* productThen answering a missing product with a server error.
productThenServerError(firstName, profileImage, productData) ==
    IF ~Truthy(productData)
    THEN <<Resp(500, ErrorBody("Failed to fetch product data"))>>
    ELSE <<Resp(200, landingView(firstName, profileImage, productData))>>

\* The callback of fetchProductData(favoriteProductId).then.
productThen(firstName, profileImage, productData) ==
    IF ~Truthy(productData)
    THEN <<Resp(404, ErrorBody("Product not found"))>>
    ELSE <<Resp(200, landingView(firstName, profileImage, productData))>>

----------------------------------------------------------------------------
\* The state machine

NoClosure ==
    [firstName |-> UNDEFINED, profileImage |-> UNDEFINED,
     favoriteProductId |-> UNDEFINED]

Init ==
    /\ pc = [r \in Reqs |-> "idle"]
    /\ userId = [r \in Reqs |-> UNDEFINED]
    /\ responses = [r \in Reqs |-> << >>]
    /\ customer = [r \in Reqs |-> NotIssued]
    /\ store = [r \in Reqs |-> NotIssued]
    /\ detail = [r \in Reqs |-> NotIssued]
    /\ image = [r \in Reqs |-> NotIssued]
    /\ merged = [r \in Reqs |-> [st |-> "none", val |-> UNDEFINED]]
    /\ closure = [r \in Reqs |-> NoClosure]
    /\ log = [r \in Reqs |-> {}]
    /\ unhandled = [r \in Reqs |-> {}]
    /\ events = [r \in Reqs |-> << >>]

\* One "respond" event for each response of resps.
Responded(resps) == [k \in 1..Len(resps) |-> "respond"]

\* fetchProductData issues the call c.
Issues(c) == \E k \in DOMAIN fetchProductDataCalls : fetchProductDataCalls[k] = c

\* A reaction of the promise fetchProductData returned is queued for r.
ReactionPending(r) ==
    /\ pc[r] = "productThen"
    /\ fetchProductData(detail[r], image[r]).settled

\* The event loop takes an I/O completion only when no reaction is queued.
LoopIdle == \A r \in Reqs : ~ReactionPending(r)

\* GET /users arrives with user_id = uid: the route handler runs.
Receive(r, uid) ==
    /\ LoopIdle
    /\ pc[r] = "idle"
    /\ LET step == usersHandler(uid)
       IN  /\ userId' = [userId EXCEPT ![r] = uid]
           /\ responses' = [responses EXCEPT ![r] = @ \o step.respond]
           /\ IF step.fetchCustomer
              THEN /\ customer' = [customer EXCEPT
                                     ![r] = Pending(S(TemplateString(uid)))]
                   /\ pc' = [pc EXCEPT ![r] = "awaitCustomer"]
              ELSE /\ customer' = customer
                   /\ pc' = [pc EXCEPT ![r] = "done"]
           /\ events' = [events EXCEPT
                           ![r] = @ \o Responded(step.respond)
                                    \o (IF step.fetchCustomer
                                        THEN <<"call:customer">> ELSE << >>)]
    /\ UNCHANGED <<store, detail, image, merged, closure, log, unhandled>>

\* The customer query of r settles (fault: it is rejected): fetchCustomerData
\* resumes and the then callback of the handler runs.
CustomerReturns(r, fault) ==
    /\ LoopIdle
    /\ pc[r] = "awaitCustomer"
    /\ customer[r].st = "pending"
    /\ LET call == IF fault
                   THEN Rejected(customer[r], "remote customer call failed")
                   ELSE Fulfilled(customer[r],
                                  customerQuery(customer[r].arg.str))
           promise == fetchCustomerData(call)
           step == customerThen(promise.value)
       IN  /\ customer' = [customer EXCEPT ![r] = call]
           /\ log' = [log EXCEPT ![r] = @ \cup promise.logged]
           /\ IF promise.rejected
              THEN \* .then has no rejection handler and no catch follows it
                   /\ unhandled' = [unhandled EXCEPT
                                      ![r] = @ \cup {promise.value.str}]
                   /\ pc' = [pc EXCEPT ![r] = "done"]
                   /\ events' = [events EXCEPT
                                   ![r] = Append(@, "ret:customer")]
                   /\ UNCHANGED <<responses, store, closure>>
              ELSE /\ responses' = [responses EXCEPT ![r] = @ \o step.respond]
                   /\ events' = [events EXCEPT
                                   ![r] = Append(@, "ret:customer")
                                            \o Responded(step.respond)
                                            \o (IF step.query
                                                THEN <<"call:store">>
                                                ELSE << >>)]
                   /\ closure' = [closure EXCEPT
                                    ![r].firstName = step.firstName,
                                    ![r].profileImage = step.profileImage]
                   /\ IF step.query
                      THEN /\ store' = [store EXCEPT ![r] = Pending(userId[r])]
                           /\ pc' = [pc EXCEPT ![r] = "awaitStore"]
                      ELSE /\ store' = store
                           /\ pc' = [pc EXCEPT ![r] = "done"]
                   /\ UNCHANGED unhandled
    /\ UNCHANGED <<userId, detail, image, merged>>

\* The store query of r completes (fault: with an error): the db.query
\* callback runs and, on a row, fetchProductData issues both sub-queries.
StoreReturns(r, fault) ==
    /\ LoopIdle
    /\ pc[r] = "awaitStore"
    /\ store[r].st = "pending"
    /\ LET results == IF fault THEN UNDEFINED
                      ELSE Arr(selectFavorite(Users, store[r].arg))
           call == IF fault THEN Rejected(store[r], "query failed")
                   ELSE Fulfilled(store[r], results)
           step == queryCallback(fault, results)
           productId == S(TemplateString(step.favoriteProductId))
       IN  /\ store' = [store EXCEPT ![r] = call]
           /\ responses' = [responses EXCEPT ![r] = @ \o step.respond]
           /\ closure' = [closure EXCEPT
                            ![r].favoriteProductId = step.favoriteProductId]
           /\ IF step.fetchProduct
              THEN /\ detail' = [detail EXCEPT
                                   ![r] = IF Issues("call:detail")
                                          THEN Pending(productId) ELSE @]
                   /\ image' = [image EXCEPT
                                  ![r] = IF Issues("call:image")
                                         THEN Pending(productId) ELSE @]
                   /\ merged' = [merged EXCEPT
                                   ![r] = [st |-> "pending", val |-> UNDEFINED]]
                   /\ pc' = [pc EXCEPT ![r] = "productThen"]
                   /\ events' = [events EXCEPT
                                   ![r] = Append(@, "ret:store")
                                            \o Responded(step.respond)
                                            \o fetchProductDataCalls]
              ELSE /\ pc' = [pc EXCEPT ![r] = "done"]
                   /\ events' = [events EXCEPT
                                   ![r] = Append(@, "ret:store")
                                            \o Responded(step.respond)]
                   /\ UNCHANGED <<detail, image, merged>>
    /\ UNCHANGED <<userId, customer, log, unhandled>>

\* The reaction of fetchProductData(favoriteProductId).then(...).catch(...)
\* runs: the then callback on a value, the first catch on a rejection.
\* The second catch (user.js:136-139) is chained on the first one, whose
\* handler only logs and does not throw, so it never runs.  client.query
\* returns a promise: its faults are rejections, never synchronous throws,
\* so the catch block of fetchProductData (user.js:240-243) never runs.
ProductThen(r) ==
    /\ ReactionPending(r)
    /\ LET promise == fetchProductData(detail[r], image[r])
       IN  IF promise.rejected
           THEN /\ log' = [log EXCEPT
                             ![r] = @ \cup {"Error fetching product data"}]
                /\ UNCHANGED <<responses, events>>
           ELSE /\ responses' = [responses EXCEPT
                                   ![r] = @ \o productThen(
                                                 closure[r].firstName,
                                                 closure[r].profileImage,
                                                 promise.value)]
                /\ events' = [events EXCEPT
                                ![r] = @ \o Responded(productThen(
                                                 closure[r].firstName,
                                                 closure[r].profileImage,
                                                 promise.value))]
                /\ UNCHANGED log
    /\ pc' = [pc EXCEPT ![r] = "done"]
    /\ UNCHANGED <<userId, customer, store, detail, image, merged, closure,
                   unhandled>>

\* What settling a sub-query does to Promise.all(...).then(...): nothing
\* handles its rejection and nothing reads its value; once settled the
\* promise keeps its state (the first rejection wins).  An unhandled
\* rejection is recorded per request; what the runtime does with it (a
\* warning, or the end of the process) is outside the handler.
SettleMerged(r, d, i) ==
    IF merged[r].st = "pending"
    THEN /\ merged' = [merged EXCEPT ![r] = promiseAllThen(d, i)]
         /\ unhandled' = [unhandled EXCEPT
                            ![r] = IF promiseAllThen(d, i).st = "rejected"
                                   THEN @ \cup {promiseAllThen(d, i).val.str}
                                   ELSE @]
    ELSE UNCHANGED <<merged, unhandled>>

\* The product detail query of r settles (fault: it is rejected).
DetailReturns(r, fault) ==
    /\ LoopIdle
    /\ detail[r].st = "pending"
    /\ LET call == IF fault
                   THEN Rejected(detail[r], "remote product call failed")
                   ELSE Fulfilled(detail[r], productQuery(detail[r].arg.str))
       IN  /\ detail' = [detail EXCEPT ![r] = call]
           /\ SettleMerged(r, call, image[r])
    /\ events' = [events EXCEPT ![r] = Append(@, "ret:detail")]
    /\ UNCHANGED <<pc, userId, responses, customer, store, image, closure, log>>

\* The product image query of r settles (fault: it is rejected).
ImageReturns(r, fault) ==
    /\ LoopIdle
    /\ image[r].st = "pending"
    /\ LET call == IF fault
                   THEN Rejected(image[r], "remote image call failed")
                   ELSE Fulfilled(image[r],
                                  productImageQuery(image[r].arg.str))
       IN  /\ image' = [image EXCEPT ![r] = call]
           /\ SettleMerged(r, detail[r], call)
    /\ events' = [events EXCEPT ![r] = Append(@, "ret:image")]
    /\ UNCHANGED <<pc, userId, responses, customer, store, detail, closure, log>>

Next ==
    \E r \in Reqs :
        \/ \E uid \in UserIdInputs : Receive(r, uid)
        \/ \E fault \in BOOLEAN : CustomerReturns(r, fault)
        \/ \E fault \in BOOLEAN : StoreReturns(r, fault)
        \/ ProductThen(r)
        \/ \E fault \in BOOLEAN : DetailReturns(r, fault)
        \/ \E fault \in BOOLEAN : ImageReturns(r, fault)

Spec == Init /\ [][Next]_vars

----------------------------------------------------------------------------
\* Properties of a request

\* The customer lookup of r succeeded and returned a customer.
CustomerFound(r) ==
    /\ customer[r].st = "fulfilled"
    /\ Truthy(customer[r].val.data.customer)

\* The store query of r succeeded and returned at least one row.
FavoriteFound(r) ==
    /\ store[r].st = "fulfilled"
    /\ Len(store[r].val.arr) > 0

\* Sub-query (a) of r succeeded and returned a product.
ProductFound(r) ==
    /\ detail[r].st = "fulfilled"
    /\ Truthy(detail[r].val.data.product)

\* No product sub-query was issued for r.
NoProductQuery(r) == detail[r].st = "none" /\ image[r].st = "none"

\* The one response of r is an error response with this status and message.
AnsweredError(r, status, msg) ==
    /\ Len(responses[r]) = 1
    /\ responses[r][1].status = status
    /\ DOMAIN responses[r][1].body = {"error"}
    /\ responses[r][1].body.error = S(msg)

\* C1: a request whose user_id is missing or empty is answered 400 with an
\* error field, and no customer call, store query or product call is issued
\* for it.
C1_MissingUserId ==
    \A r \in Reqs :
        (pc[r] # "idle" /\ userId[r] \in {UNDEFINED, S("")}) =>
            /\ AnsweredError(r, 400, "Missing user_id query parameter")
            /\ customer[r].st = "none"
            /\ store[r].st = "none"
            /\ NoProductQuery(r)

C1_Witness ==
    /\ \E r \in Reqs : pc[r] = "done" /\ userId[r] = UNDEFINED
    /\ \E r \in Reqs : pc[r] = "done" /\ userId[r] = S("")

\* C2: when the customer lookup succeeds and returns no customer, the request
\* is answered 404 'Customer not found' and neither a store query nor a
\* product query is issued for it.
C2_CustomerNotFound ==
    \A r \in Reqs :
        (/\ Truthy(userId[r])
         /\ customer[r].st = "fulfilled"
         /\ ~Truthy(customer[r].val.data.customer)) =>
            /\ AnsweredError(r, 404, "Customer not found")
            /\ store[r].st = "none"
            /\ NoProductQuery(r)

C2_Witness ==
    \E r \in Reqs :
        /\ userId[r] = S("47")
        /\ customer[r].st = "fulfilled"
        /\ customer[r].val.data.customer = NULL
        /\ pc[r] = "done"

\* C3: when the customer is found and the store query returns zero rows, the
\* request is answered 404 'Favorite product not found' and no product
\* sub-query is issued for it.
C3_FavoriteNotFound ==
    \A r \in Reqs :
        (/\ CustomerFound(r)
         /\ store[r].st = "fulfilled"
         /\ Len(store[r].val.arr) = 0) =>
            /\ AnsweredError(r, 404, "Favorite product not found")
            /\ NoProductQuery(r)

C3_Witness ==
    \E r \in Reqs :
        /\ CustomerFound(r)
        /\ store[r].st = "fulfilled"
        /\ store[r].val = Arr(<< >>)
        /\ pc[r] = "done"

\* C4: when the customer is found, a favorite-product row exists and product
\* sub-query (a) returns no product, the request is answered 404 'Product
\* not found'.
C4_ProductNotFound ==
    \A r \in Reqs :
        (/\ CustomerFound(r)
         /\ FavoriteFound(r)
         /\ detail[r].st = "fulfilled"
         /\ ~Truthy(detail[r].val.data.product)) =>
            AnsweredError(r, 404, "Product not found")

C4_Witness ==
    \E r \in Reqs :
        /\ CustomerFound(r)
        /\ FavoriteFound(r)
        /\ detail[r].st = "fulfilled"
        /\ detail[r].arg = S("97")
        /\ detail[r].val.data.product = NULL
        /\ responses[r] # << >>

\* Sub-query (b) of r succeeded; its first media node, if any.
ImageNode(r) == First(image[r].val.data.product.media.nodes)

\* Every callback of r has run and none of its calls is outstanding.
Quiescent(r) ==
    /\ pc[r] = "done"
    /\ customer[r].st # "pending"
    /\ store[r].st # "pending"
    /\ detail[r].st # "pending"
    /\ image[r].st # "pending"

\* C5: on a valid chain (customer found, favorite row found, product found by
\* sub-query (a), no media node from the image sub-query) the request is
\* answered 200 with a body whose product.image is null.
C5_SuccessWithoutImage ==
    \A r \in Reqs :
        (/\ Quiescent(r)
         /\ CustomerFound(r)
         /\ FavoriteFound(r)
         /\ ProductFound(r)
         /\ image[r].st = "fulfilled"
         /\ ~Truthy(ImageNode(r))) =>
            /\ Len(responses[r]) = 1
            /\ responses[r][1].status = 200
            /\ "product" \in DOMAIN responses[r][1].body
            /\ responses[r][1].body.product.image = NULL

\* C6: every request with a non-empty user_id is answered on every path:
\* once all its callbacks have run and none of its calls is outstanding, a
\* response has been sent.
C6_EveryPathAnswers ==
    \A r \in Reqs :
        (Truthy(userId[r]) /\ Quiescent(r)) => responses[r] # << >>

\* C7: at most one response is ever sent for a request.
C7_AtMostOneResponse ==
    \A r \in Reqs : Len(responses[r]) <= 1

C7_Witness ==
    \E r \in Reqs :
        /\ Len(responses[r]) = 1
        /\ Quiescent(r)
        /\ merged[r].st \in {"fulfilled", "rejected"}

\* C8: a 200 is sent only when the customer lookup returned a customer and
\* the product lookup returned a product: a request with either of them
\* unresolved, missing or failed has no 200 among its responses.
C8_SuccessNeedsBoth ==
    \A r \in Reqs :
        (~CustomerFound(r) \/ ~ProductFound(r)) =>
            \A k \in DOMAIN responses[r] : responses[r][k].status # 200

C8_Witness ==
    \E r \in Reqs :
        /\ CustomerFound(r)
        /\ detail[r].st = "rejected"
        /\ responses[r] # << >>

\* C9: a success response is composed only after both product sub-queries
\* have completed: no 200 precedes the completion of either, and once both
\* have completed with a product the request is answered 200 with the image
\* that arrived, or with null when none did.
C9_JoinBeforeCompose ==
    \A r \in Reqs :
        /\ \A k \in DOMAIN responses[r] :
              responses[r][k].status = 200 =>
                  detail[r].st = "fulfilled" /\ image[r].st = "fulfilled"
        /\ (/\ Quiescent(r)
            /\ ProductFound(r)
            /\ image[r].st = "fulfilled") =>
               /\ Len(responses[r]) = 1
               /\ responses[r][1].status = 200
               /\ "product" \in DOMAIN responses[r][1].body
               /\ responses[r][1].body.product.image =
                     IF Truthy(ImageNode(r))
                     THEN [id |-> ImageNode(r).id, alt |-> ImageNode(r).alt,
                           url |-> ImageNode(r).image.url,
                           width |-> ImageNode(r).image.width,
                           height |-> ImageNode(r).image.height]
                     ELSE NULL

\* C10: when the customer is found and the store query reports a fault, the
\* request is answered 500 with an error field and no product sub-query is
\* issued for it.
C10_StoreFailure ==
    \A r \in Reqs :
        (CustomerFound(r) /\ store[r].st = "rejected") =>
            /\ AnsweredError(r, 500, "Database query error")
            /\ NoProductQuery(r)

C10_Witness ==
    \E r \in Reqs :
        /\ CustomerFound(r)
        /\ store[r].st = "rejected"
        /\ pc[r] = "done"

\* C11: when the remote customer lookup errors, the request is answered 500
\* 'Failed to fetch customer data' and neither a store query nor a product
\* query is issued for it.
C11_CustomerFetchFailure ==
    \A r \in Reqs :
        customer[r].st = "rejected" =>
            /\ AnsweredError(r, 500, "Failed to fetch customer data")
            /\ store[r].st = "none"
            /\ NoProductQuery(r)

\* The profile image URL of the customer c: the src of its image, or null.
ProfileImageUrl(c) == IF Truthy(c.image) THEN c.image.src ELSE NULL

\* C12: the profileImage of a success body is the customer's profile image
\* URL string (image.src) or null, and its firstName is the customer's
\* firstName.  The handler binds both when the customer arrives
\* (user.js:79) and res.json copies them into the body (user.js:118-119),
\* so the bound values and those of every 200 body are the ones claimed.
C12_ProfileImageIsUrl ==
    \A r \in Reqs :
        CustomerFound(r) =>
            LET c == customer[r].val.data.customer
            IN  /\ closure[r].firstName = c.firstName
                /\ closure[r].profileImage = ProfileImageUrl(c)
                /\ \A k \in DOMAIN responses[r] :
                      responses[r][k].status = 200 =>
                          /\ responses[r][k].body.firstName = c.firstName
                          /\ responses[r][k].body.profileImage =
                                ProfileImageUrl(c)

\* The number of events e of request r.
Count(r, e) == Cardinality({k \in DOMAIN events[r] : events[r][k] = e})

\* fetchProductData was called for r.
ProductStage(r) == merged[r].st # "none"

\* C13: a request issues at most one customer call, one store read, one
\* product detail call and one product image call, whatever fails; a request
\* that reaches the product stage has issued exactly one of each.
C13_CallsPerInvocation ==
    \A r \in Reqs :
        /\ Count(r, "call:customer") <= 1
        /\ Count(r, "call:store") <= 1
        /\ Count(r, "call:detail") <= 1
        /\ Count(r, "call:image") <= 1
        /\ ProductStage(r) =>
              /\ Count(r, "call:customer") = 1
              /\ Count(r, "call:store") = 1
              /\ Count(r, "call:detail") = 1
              /\ Count(r, "call:image") = 1

C13_Witness ==
    \E r \in Reqs :
        /\ ProductStage(r)
        /\ Quiescent(r)
        /\ detail[r].st = "rejected"
        /\ image[r].st = "rejected"

\* Every event b of r has an event a before it.
Before(r, a, b) ==
    \A j \in DOMAIN events[r] :
        events[r][j] = b => \E i \in 1..(j - 1) : events[r][i] = a

\* The position of r in the order of the stages.
StageRank(r) ==
    CASE pc[r] = "idle" -> 0
      [] pc[r] = "awaitCustomer" -> 1
      [] pc[r] = "awaitStore" -> 2
      [] pc[r] = "productThen" -> 3
      [] pc[r] = "done" -> 4

\* The store query is issued after the customer lookup returned a customer,
\* and the product sub-queries after the store query returned a row.
StagesInOrder ==
    \A r \in Reqs :
        /\ store[r].st # "none" => CustomerFound(r)
        /\ Before(r, "ret:customer", "call:store")
        /\ ~NoProductQuery(r) => FavoriteFound(r)
        /\ Before(r, "ret:store", "call:detail")
        /\ Before(r, "ret:store", "call:image")

\* A step takes a request to the next stage or to its exit, and a request
\* that has left issues no call and sends no response any more.
StageStep ==
    \A r \in Reqs :
        /\ StageRank(r)' \in {StageRank(r), StageRank(r) + 1, 4}
        /\ pc[r] = "done" =>
              /\ Count(r, "call:customer")' = Count(r, "call:customer")
              /\ Count(r, "call:store")' = Count(r, "call:store")
              /\ Count(r, "call:detail")' = Count(r, "call:detail")
              /\ Count(r, "call:image")' = Count(r, "call:image")
              /\ responses'[r] = responses[r]

\* C14: a request passes through the stages in their fixed order, with an
\* exit at each stage: the store query is issued only after the customer
\* lookup completed with a customer, the product sub-queries only after the
\* store query completed with a row, and no stage is entered after an exit.
C14_StageOrder == []StagesInOrder /\ [][StageStep]_vars

C14_Witness ==
    /\ \E r \in Reqs : ProductStage(r) /\ Quiescent(r)
    /\ \E r \in Reqs : pc[r] = "done" /\ store[r].st = "rejected"

\* C15: a 404 'Product not found' is sent only when product sub-query (a) has
\* completed and returned no product, never while it is outstanding or after
\* it returned a product.
C15_ProductNotFoundOnlyWhenMissing ==
    \A r \in Reqs :
        \A k \in DOMAIN responses[r] :
            responses[r][k] = Resp(404, ErrorBody("Product not found")) =>
                /\ detail[r].st = "fulfilled"
                /\ ~Truthy(detail[r].val.data.product)

\* A remote product call of r faulted.
ProductCallFaulted(r) == detail[r].st = "rejected" \/ image[r].st = "rejected"

At(r, e) == CHOOSE k \in DOMAIN events[r] : events[r][k] = e

\* Both sub-queries of r returned, the detail query first.
DetailFirst(r) ==
    /\ Count(r, "ret:detail") = 1
    /\ Count(r, "ret:image") = 1
    /\ At(r, "ret:detail") < At(r, "ret:image")

\* Both sub-queries of r returned, the image query first.
ImageFirst(r) ==
    /\ Count(r, "ret:detail") = 1
    /\ Count(r, "ret:image") = 1
    /\ At(r, "ret:image") < At(r, "ret:detail")

\* The product record of id with its first image attached, if it has one.
ProductWithImage(id) ==
    IF id \notin DOMAIN Products THEN NULL
    ELSE IF Media[id] = << >> THEN Products[id]
    ELSE [f \in DOMAIN Products[id] \cup {"image"} |->
             IF f = "image"
             THEN [id |-> Media[id][1].id, alt |-> Media[id][1].alt,
                   url |-> Media[id][1].image.url,
                   width |-> Media[id][1].image.width,
                   height |-> Media[id][1].image.height]
             ELSE Products[id][f]]

\* C17: the two product sub-queries are issued without waiting on one
\* another: both have been issued before either returns, and when both have
\* returned the merged product is the product with its first image, the same
\* whichever returned first.
C17_IndependentSubQueries ==
    /\ \A r \in Reqs :
          /\ (detail[r].st = "none") <=> (image[r].st = "none")
          /\ Before(r, "call:detail", "ret:image")
          /\ Before(r, "call:image", "ret:detail")
          /\ merged[r].st = "fulfilled" =>
                merged[r].val = ProductWithImage(detail[r].arg.str)
    /\ \A r1, r2 \in Reqs :
          (/\ merged[r1].st = "fulfilled"
           /\ merged[r2].st = "fulfilled"
           /\ detail[r1].arg = detail[r2].arg) =>
              merged[r1].val = merged[r2].val

C17_Witness ==
    \E r1, r2 \in Reqs :
        /\ DetailFirst(r1)
        /\ ImageFirst(r2)
        /\ detail[r1].arg = S("98")
        /\ detail[r2].arg = S("98")
        /\ merged[r1].st = "fulfilled"
        /\ merged[r2].st = "fulfilled"

\* The failure that ended request r, "none" when nothing failed (yet).
FailureKind(r) ==
    CASE pc[r] = "idle" -> "none"
      [] pc[r] # "idle" /\ ~Truthy(userId[r]) -> "MissingParameter"
      [] customer[r].st = "rejected" -> "RemoteFetchFailure"
      [] customer[r].st = "fulfilled" /\ ~CustomerFound(r) -> "NotFoundCustomer"
      [] store[r].st = "rejected" -> "StoreFailure"
      [] store[r].st = "fulfilled" /\ ~FavoriteFound(r) -> "NotFoundFavorite"
      [] ProductCallFaulted(r) -> "RemoteFetchFailure"
      [] ~ProductCallFaulted(r) /\ detail[r].st = "fulfilled"
            /\ ~ProductFound(r) -> "NotFoundProduct"
      [] OTHER -> "none"

\* C18: each failure kind maps to its own client-visible status and message:
\* two requests that ended in different failure kinds never got the same
\* status and error message.
C18_DistinctFailureResponses ==
    \A r1, r2 \in Reqs :
        (/\ Quiescent(r1)
         /\ Quiescent(r2)
         /\ FailureKind(r1) # "none"
         /\ FailureKind(r2) # "none"
         /\ FailureKind(r1) # FailureKind(r2)
         /\ responses[r1] # << >>
         /\ responses[r2] # << >>) =>
            responses[r1][1] # responses[r2][1]

CallEvents == {"call:customer", "call:store", "call:detail", "call:image"}

\* C19: once a response has been sent for a request, no customer call, store
\* query or product call is issued for it any more.
C19_NoCallAfterResponse ==
    \A r \in Reqs :
        \A i, j \in DOMAIN events[r] :
            (i < j /\ events[r][i] = "respond") => events[r][j] \notin CallEvents

C19_Witness ==
    \E r \in Reqs :
        /\ Count(r, "respond") = 1
        /\ Count(r, "ret:detail") = 1
        /\ At(r, "respond") < At(r, "ret:detail")

\* The favorite_product_id of the first row the store returned for r.
FirstFavorite(r) == store[r].val.arr[1].favorite_product_id

\* C20: product sub-queries are only issued with a set (non-null)
\* favorite-product identifier, the one of the first row the store returned
\* for the user_id of the same request; when that identifier is null the
\* request ends in a 404 without any product query.
C20_ProductQueryNeedsFavorite ==
    \A r \in Reqs :
        /\ ~NoProductQuery(r) =>
              /\ FavoriteFound(r)
              /\ store[r].arg = userId[r]
              /\ FirstFavorite(r) # NULL
              /\ detail[r].arg = FirstFavorite(r)
              /\ image[r].arg = FirstFavorite(r)
        /\ (FavoriteFound(r) /\ FirstFavorite(r) = NULL) =>
              /\ NoProductQuery(r)
              /\ Quiescent(r) =>
                    Len(responses[r]) = 1 /\ responses[r][1].status = 404

====
